---------------------------- MODULE Spec2Model ----------------------------
(***************************************************************************)
(* A model of winpos.py: one run of arrange_windows, which reads the       *)
(* active screens from xrandr, loads config.json, grows the number of      *)
(* virtual desktops and then places one window per configured rule with    *)
(* xdotool.                                                                *)
(*                                                                         *)
(* Python strings that the program splits, strips or matches are modelled  *)
(* as sequences of one-character strings, so that the parsing code is      *)
(* modelled by what it does.  Python dicts are functions whose domain is   *)
(* the set of keys present.  An uncaught Python exception ends the run:    *)
(* it is recorded in exc and the program counter moves to "exit".          *)
(***************************************************************************)
EXTENDS Integers, Sequences, FiniteSets, TLC

VARIABLES
    pc,         \* the statement the interpreter is about to execute
    monitors,   \* lines printed by `xrandr --listactivemonitors` (environment)
    conf_file,  \* content of config.json: a list of rules (environment)
    desktops,   \* the window manager's number of virtual desktops (environment)
    screens,    \* arrange_windows: screens
    config,     \* arrange_windows: config
    cur,        \* 1-based position of win_conf in config, 0 before the loop
    local,      \* arrange_window: screen, win_id, width, height, x_pos, y_pos
    calls,      \* every external command issued so far, in order
    errors,     \* every log(..., level='error') so far, in order
    exc,        \* "" or the exception that propagated out of arrange_windows
    outcome,    \* per rule: "none", "active", "skipped", "placed", "raised"
    source,     \* calc_size: argument source
    target,     \* calc_size: argument target
    size        \* calc_size: returned value, NoSize before the call

vars == << pc, monitors, conf_file, desktops, screens, config, cur, local,
           calls, errors, exc, outcome, source, target, size >>

---------------------------------------------------------------------------
(* Bounds of the model.                                                    *)

\* longest xrandr output, in lines, explored for get_active_screens
MaxLines == 3
\* longest config.json, in rules
MaxRules == 2
\* largest target extent explored for calc_size on its own
MaxExtent == 12

---------------------------------------------------------------------------
(* Python values and strings.                                              *)

\* An int or a str value of a JSON document.
IntV(n) == [t |-> "int", v |-> n, s |-> <<>>]
StrV(chars) == [t |-> "str", v |-> 0, s |-> chars]

\* dict.get(key, default)
Get(d, key, default) == IF key \in DOMAIN d THEN d[key] ELSE default

Digits == {"0", "1", "2", "3", "4", "5", "6", "7", "8", "9"}

DigitVal(c) ==
    CASE c = "0" -> 0 [] c = "1" -> 1 [] c = "2" -> 2 [] c = "3" -> 3
      [] c = "4" -> 4 [] c = "5" -> 5 [] c = "6" -> 6 [] c = "7" -> 7
      [] c = "8" -> 8 [] c = "9" -> 9

\* The whitespace of the model's alphabet.
Whitespace == {" "}

IsDigits(s) == Len(s) >= 1 /\ \A i \in 1..Len(s) : s[i] \in Digits

RECURSIVE DigitsVal(_)
DigitsVal(s) ==
    IF s = <<>> THEN 0
    ELSE 10 * DigitsVal(SubSeq(s, 1, Len(s) - 1)) + DigitVal(s[Len(s)])

RECURSIVE LStrip(_, _)
\* str.lstrip(chars)
LStrip(s, chars) ==
    IF s # <<>> /\ s[1] \in chars THEN LStrip(Tail(s), chars) ELSE s

RECURSIVE RStrip(_, _)
\* str.rstrip(chars)
RStrip(s, chars) ==
    IF s # <<>> /\ s[Len(s)] \in chars
    THEN RStrip(SubSeq(s, 1, Len(s) - 1), chars) ELSE s

\* str.strip(chars); str.strip() is Strip(s, Whitespace)
Strip(s, chars) == RStrip(LStrip(s, chars), chars)

\* whether s starts with sep at position i
MatchAt(s, sep, i) ==
    /\ i + Len(sep) - 1 <= Len(s)
    /\ \A k \in 1..Len(sep) : s[i + k - 1] = sep[k]

\* 0, or the first position at which sep occurs in s
Find(s, sep) ==
    IF \E i \in 1..Len(s) : MatchAt(s, sep, i)
    THEN CHOOSE i \in 1..Len(s) :
            MatchAt(s, sep, i) /\ \A j \in 1..(i - 1) : ~MatchAt(s, sep, j)
    ELSE 0

RECURSIVE Split(_, _)
\* str.split(sep) for a non-empty separator: cut at each occurrence, left to right
Split(s, sep) ==
    LET i == Find(s, sep) IN
    IF i = 0 THEN << s >>
    ELSE << SubSeq(s, 1, i - 1) >> \o Split(SubSeq(s, i + Len(sep), Len(s)), sep)

\* Whether int(s) returns: optional surrounding whitespace, an optional sign, digits.
IsIntLit(s) ==
    LET t == Strip(s, Whitespace)
        body == IF t # <<>> /\ t[1] \in {"+", "-"} THEN Tail(t) ELSE t
    IN IsDigits(body)

\* int(s), for a string on which int returns
PyInt(s) ==
    LET t == Strip(s, Whitespace) IN
    IF t[1] = "-" THEN 0 - DigitsVal(Tail(t))
    ELSE IF t[1] = "+" THEN DigitsVal(Tail(t))
    ELSE DigitsVal(t)

Min(a, b) == IF a <= b THEN a ELSE b

\* int(a / b) for b > 0: true division, then truncation towards zero
TruncDiv(a, b) == IF a >= 0 THEN a \div b ELSE 0 - ((0 - a) \div b)

---------------------------------------------------------------------------
(* get_screen_data and get_active_screens.                                 *)

\* The result of a call: a returned value, or a raised exception.
Return(v) == [raised |-> "", none |-> FALSE, value |-> v]
Raise(e) == [raised |-> e, none |-> FALSE, value |-> << >>]
\* a call that returns None
ReturnNone == [raised |-> "", none |-> TRUE, value |-> << >>]

\* _get_px_mm unpacked into two names: whether it returns
PxMmOk(data) ==
    LET parts == Split(data, << "/" >>) IN
    Len(parts) = 2 /\ IsIntLit(parts[1]) /\ IsIntLit(parts[2])

\* _get_px_mm: (pixels, millimetres)
PxMm(data) ==
    LET parts == Split(data, << "/" >>) IN << PyInt(parts[1]), PyInt(parts[2]) >>

get_screen_data(screen_data) ==
    LET data1 == Split(Strip(screen_data, Whitespace), << " ", " " >>) IN
    IF Len(data1) # 2 THEN ReturnNone
    ELSE
    LET data2 == Split(Strip(data1[1], Whitespace), << " " >>)
        has3 == Len(data2) = 3
        sd2 == IF has3 THEN data2[3] ELSE data1[1]
        data3 == Split(sd2, << "+" >>)
        hasXY == Len(data3) = 3
        sd3 == IF hasXY THEN data3[1] ELSE sd2
        data4 == Split(sd3, << "x" >>)
        hasWH == Len(data4) = 2
        r1 == [name |-> data1[2]]
        r2 == IF has3
              THEN r1 @@ [index |-> PyInt(Strip(data2[1], {":"})),
                          current |-> \E i \in 1..Len(data2[2]) : data2[2][i] = "*"]
              ELSE r1
        r3 == IF hasXY
              THEN r2 @@ [x |-> PyInt(data3[2]), y |-> PyInt(data3[3])]
              ELSE r2
        r4 == IF hasWH
              THEN r3 @@ [width |-> PxMm(data4[1])[1], width_mm |-> PxMm(data4[1])[2],
                          height |-> PxMm(data4[2])[1], height_mm |-> PxMm(data4[2])[2]]
              ELSE r3
    IN  IF \/ has3 /\ ~IsIntLit(Strip(data2[1], {":"}))
           \/ hasXY /\ (~IsIntLit(data3[2]) \/ ~IsIntLit(data3[3]))
           \/ hasWH /\ (~PxMmOk(data4[1]) \/ ~PxMmOk(data4[2]))
        THEN Raise("ValueError")
        ELSE Return(r4)

\* the sort key of get_active_screens: s.get('x', 0)
SortKey(s) == Get(s, "x", 0)

\* mutant of InsertByKey: an element goes before the elements of equal key
InsertByKeyBeforeTies(sorted, e) ==
    LET n == Cardinality({i \in 1..Len(sorted) : SortKey(sorted[i]) < SortKey(e)})
    IN SubSeq(sorted, 1, n) \o << e >> \o SubSeq(sorted, n + 1, Len(sorted))

\* list.sort places an element after every element whose key is not greater
InsertByKey(sorted, e) ==
    LET n == Cardinality({i \in 1..Len(sorted) : SortKey(sorted[i]) <= SortKey(e)})
    IN SubSeq(sorted, 1, n) \o << e >> \o SubSeq(sorted, n + 1, Len(sorted))

RECURSIVE SortScreens(_)
\* res.sort(key=lambda s: s.get('x', 0)): a stable sort
SortScreens(res) ==
    IF res = <<>> THEN <<>>
    ELSE InsertByKey(SortScreens(SubSeq(res, 1, Len(res) - 1)), res[Len(res)])

\* `if not screen_data: continue`: None and the empty dict are skipped
Falsy(screen_data) == screen_data.none \/ DOMAIN screen_data.value = {}

RECURSIVE ParseMonitors(_)
\* the loop of get_active_screens: the records appended to res, in order
ParseMonitors(lines) ==
    IF lines = <<>> THEN <<>>
    ELSE LET screen_data == get_screen_data(lines[1]) IN
         (IF Falsy(screen_data) THEN <<>> ELSE << screen_data.value >>)
            \o ParseMonitors(Tail(lines))

\* whether get_screen_data raises on one of the lines
ParseRaises(lines) ==
    \E i \in 1..Len(lines) : get_screen_data(lines[i]).raised # ""

---------------------------------------------------------------------------
(* calc_size and calc_pos.                                                 *)

\* re.match(r'^[0-9]{1,4}$', source), on a stripped string
MatchesInteger(s) == Len(s) \in 1..4 /\ IsDigits(s)

\* re.match(r'^[0-9]{1,3}%$', source), on a stripped string
MatchesPercent(s) ==
    /\ Len(s) \in 2..4
    /\ s[Len(s)] = "%"
    /\ IsDigits(SubSeq(s, 1, Len(s) - 1))

\* mutant of CoercePercent: the percentage is used as written
CoercePercentOff(perc) == perc

\* perc = perc if 0 < perc <= 100 else 100
CoercePercent(perc) == IF 0 < perc /\ perc <= 100 THEN perc ELSE 100

\* source.replace('%', '')
WithoutPercent(s) == SelectSeq(s, LAMBDA c : c # "%")

calc_size(src, tgt) ==
    IF src.t = "int"
    THEN Min(IF src.v > 0 THEN src.v ELSE 0, tgt)
    ELSE LET s == Strip(src.s, Whitespace) IN
         IF MatchesInteger(s) THEN Min(PyInt(s), tgt)
         ELSE IF MatchesPercent(s)
         THEN TruncDiv(tgt * CoercePercent(PyInt(WithoutPercent(s))), 100)
         ELSE 0

\* whether calc_size logs 'Invalid size' at error level
InvalidSize(src) ==
    /\ src.t = "str"
    /\ ~MatchesInteger(Strip(src.s, Whitespace))
    /\ ~MatchesPercent(Strip(src.s, Whitespace))

UpperCase == << "A", "B", "C", "D", "E", "F", "G", "H", "I", "J", "K", "L", "M",
                "N", "O", "P", "Q", "R", "S", "T", "U", "V", "W", "X", "Y", "Z" >>
LowerCase == << "a", "b", "c", "d", "e", "f", "g", "h", "i", "j", "k", "l", "m",
                "n", "o", "p", "q", "r", "s", "t", "u", "v", "w", "x", "y", "z" >>

\* str.lower()
Lower(s) ==
    [i \in 1..Len(s) |->
        IF \E k \in 1..26 : UpperCase[k] = s[i]
        THEN LowerCase[CHOOSE k \in 1..26 : UpperCase[k] = s[i]]
        ELSE s[i]]

\* str.endswith('%')
EndsWithPercent(s) == s # <<>> /\ s[Len(s)] = "%"

KwTop == << "t", "o", "p" >>
KwCenter == << "c", "e", "n", "t", "e", "r" >>
KwBottom == << "b", "o", "t", "t", "o", "m" >>
KwLeft == << "l", "e", "f", "t" >>
KwRight == << "r", "i", "g", "h", "t" >>

\* mutant of AxisPos: bottom and right forget the extent of the window
AxisPosFromEnd(token, kwStart, kwEnd, extent, screen_extent) ==
    IF token = kwStart THEN 0
    ELSE IF token = KwCenter THEN TruncDiv(screen_extent - extent, 2)
    ELSE IF token = kwEnd THEN screen_extent
    ELSE calc_size(StrV(token), screen_extent - extent)

\* the offset of a window of extent `extent` inside a screen of extent
\* `screen_extent`, for one token of align
AxisPos(token, kwStart, kwEnd, extent, screen_extent) ==
    IF token = kwStart THEN 0
    ELSE IF token = KwCenter THEN TruncDiv(screen_extent - extent, 2)
    ELSE IF token = kwEnd THEN screen_extent - extent
    ELSE calc_size(StrV(token), screen_extent - extent)

calc_pos(position, width, height, screen_width, screen_height) ==
    LET pos == Split(position, << " " >>) IN
    IF Len(pos) # 2 THEN Raise("AssertionError")
    ELSE
    LET vert == Lower(pos[1])
        horiz == Lower(pos[2])
    IN  IF ~(vert \in {KwTop, KwCenter, KwBottom} \/ EndsWithPercent(vert))
        THEN Raise("AssertionError")
        ELSE IF ~(horiz \in {KwLeft, KwCenter, KwRight} \/ EndsWithPercent(horiz))
        THEN Raise("AssertionError")
        ELSE Return(<< AxisPos(horiz, KwLeft, KwRight, width, screen_width),
                       AxisPos(vert, KwTop, KwBottom, height, screen_height) >>)

\* the 'Invalid size' errors that calc_pos logs through calc_size: the
\* vertical token is resolved first
PosErrors(position) ==
    LET pos == Split(position, << " " >>)
        vert == Lower(pos[1])
        horiz == Lower(pos[2])
    IN  (IF vert \notin {KwTop, KwCenter, KwBottom} /\ InvalidSize(StrV(vert))
         THEN << "Invalid size" >> ELSE << >>)
        \o
        (IF horiz \notin {KwLeft, KwCenter, KwRight} /\ InvalidSize(StrV(horiz))
         THEN << "Invalid size" >> ELSE << >>)

---------------------------------------------------------------------------
(* The run of arrange_windows.                                             *)

\* One external command: its name, the rule it was issued for (0: none), its
\* arguments and what it printed (ok = FALSE: it exited non-zero and
\* check_output raised CalledProcessError).
Call(cmd, rule, args, ok, lines) ==
    [cmd |-> cmd, rule |-> rule, args |-> args, ok |-> ok, lines |-> lines]

\* log(msg, level='error') while rule `rule` is processed
Error(rule, msg) == [rule |-> rule, msg |-> msg]

\* get_window's None
NoWindow == "None"

NoLocal == [config |-> << >>, screen |-> << >>, win_id |-> NoWindow,
            width |-> 0, height |-> 0, x_pos |-> 0, y_pos |-> 0]
NoSize == "unset"

\* An exception leaves arrange_windows: the process ends with a traceback.
Abort(e) ==
    /\ exc' = e
    /\ pc' = "exit"
    /\ outcome' = [i \in DOMAIN outcome |->
                      IF i = cur THEN "raised" ELSE outcome[i]]

\* get_active_screens, the first statement of arrange_windows
get_active_screens ==
    /\ pc = "get_active_screens"
    /\ \E ok \in BOOLEAN :
          /\ calls' = Append(calls, Call("xrandr", 0, << >>, ok, << >>))
          /\ IF ~ok
             THEN Abort("CalledProcessError") /\ UNCHANGED screens
             ELSE IF ParseRaises(monitors)
             THEN Abort("ValueError") /\ UNCHANGED screens
             ELSE /\ screens' = SortScreens(ParseMonitors(monitors))
                  /\ pc' = "get_config"
                  /\ UNCHANGED << exc, outcome >>
    /\ UNCHANGED << monitors, conf_file, desktops, config, cur, local, errors,
                    source, target, size >>

\* get_config: an unreadable file leaves config = [], which the second
\* assertion rejects, as it rejects an empty list
get_config ==
    /\ pc = "get_config"
    /\ LET loaded == IF conf_file.readable THEN conf_file.doc ELSE << >> IN
       IF Len(loaded) > 0
       THEN /\ config' = loaded
            /\ outcome' = [i \in 1..Len(loaded) |-> "none"]
            /\ pc' = "set_desktops"
            /\ UNCHANGED exc
       ELSE /\ exc' = "AssertionError"
            /\ pc' = "exit"
            /\ UNCHANGED << config, outcome >>
    /\ UNCHANGED << monitors, conf_file, desktops, screens, cur, local, calls,
                    errors, source, target, size >>

\* max(c.get('desktop', 0) for c in config)
RECURSIVE MaxOf(_)
MaxOf(S) ==
    LET x == CHOOSE y \in S : TRUE IN
    IF S = {x} THEN x
    ELSE LET m == MaxOf(S \ {x}) IN IF x > m THEN x ELSE m

\* the default of c.get('desktop', ...) in arrange_windows
DesktopIfAbsent == 0

max_desktop(conf) ==
    MaxOf({ Get(conf[i], "desktop", DesktopIfAbsent) : i \in 1..Len(conf) })

\* set_desktops(count=max_desktop+1)
set_desktops ==
    /\ pc = "set_desktops"
    /\ LET count == max_desktop(config) + 1
           query(ok) == Call("get_num_desktops", 0, << >>, ok, << desktops >>)
           set(ok) == Call("set_num_desktops", 0, << count >>, ok, << >>)
       IN  \/ /\ calls' = Append(calls, query(FALSE))
              /\ Abort("CalledProcessError")
              /\ UNCHANGED desktops
           \/ /\ desktops >= count
              /\ calls' = Append(calls, query(TRUE))
              /\ pc' = "for"
              /\ UNCHANGED << desktops, exc, outcome >>
           \/ /\ desktops < count
              /\ \E ok \in BOOLEAN :
                    /\ calls' = calls \o << query(TRUE), set(ok) >>
                    /\ IF ok
                       THEN /\ desktops' = count
                            /\ pc' = "for"
                            /\ UNCHANGED << exc, outcome >>
                       ELSE Abort("CalledProcessError") /\ UNCHANGED desktops
    /\ UNCHANGED << monitors, conf_file, screens, config, cur, local, errors,
                    source, target, size >>

\* for win_conf in config: the next rule, or the end of the run
for_win_conf ==
    /\ pc = "for"
    /\ IF cur < Len(config)
       THEN /\ cur' = cur + 1
            /\ outcome' = [outcome EXCEPT ![cur + 1] = "active"]
            /\ pc' = "arrange_window"
       ELSE /\ pc' = "exit"
            /\ UNCHANGED << cur, outcome >>
    /\ local' = NoLocal
    /\ UNCHANGED << monitors, conf_file, desktops, screens, config, calls,
                    errors, exc, source, target, size >>

KwTopLeft == << "t", "o", "p", " ", "l", "e", "f", "t" >>

\* the defaults of arrange_window
Defaults ==
    [name |-> "Unknown", search_name |-> "", search_process |-> "",
     screen |-> IntV(0), desktop |-> 2, width |-> IntV(0), height |-> IntV(0),
     align |-> KwTopLeft]

\* config.update(window_config)
Update(d, u) ==
    [k \in DOMAIN d \cup DOMAIN u |-> IF k \in DOMAIN u THEN u[k] ELSE d[k]]

\* mutant of SearchConfigured: the assertion reads 'name' for 'search_name'
SearchConfiguredByName(cfg) == cfg.name # "" \/ cfg.search_process # ""

\* config['search_name'] or config['search_process']
SearchConfigured(cfg) == cfg.search_name # "" \/ cfg.search_process # ""

\* the screens a rule may not name: len(screens) <= config['screen']
ScreenOutOfRange(scr, n) == Len(scr) <= n

\* whether scr[n] raises IndexError
IndexRaises(scr, n) == n >= Len(scr) \/ n < 0 - Len(scr)

\* scr[n], with Python's negative indices
Index(scr, n) == IF n >= 0 THEN scr[n + 1] ELSE scr[Len(scr) + n + 1]

\* the rule is done without an exception
Skip(msg) ==
    /\ errors' = Append(errors, Error(cur, msg))
    /\ outcome' = [outcome EXCEPT ![cur] = "skipped"]
    /\ pc' = "for"
    /\ UNCHANGED exc

\* arrange_window up to the choice of the screen
arrange_window ==
    /\ pc = "arrange_window"
    /\ LET cfg == Update(Defaults, config[cur]) IN
       IF ~SearchConfigured(cfg) \/ cfg.screen.t # "int"
       THEN Abort("AssertionError") /\ UNCHANGED << local, errors >>
       ELSE IF ScreenOutOfRange(screens, cfg.screen.v)
       THEN Skip("There are only") /\ UNCHANGED local
       ELSE IF IndexRaises(screens, cfg.screen.v)
       THEN Abort("IndexError") /\ UNCHANGED << local, errors >>
       ELSE /\ local' = [local EXCEPT !.config = cfg,
                                      !.screen = Index(screens, cfg.screen.v)]
            /\ pc' = "get_window"
            /\ UNCHANGED << errors, exc, outcome >>
    /\ UNCHANGED << monitors, conf_file, desktops, screens, config, cur, calls,
                    source, target, size >>

\* what pgrep may print when it exits 0
PgrepOutputs == { << "101" >>, << "101", "102" >> }

\* what xdotool search may print when it exits 0; << "" >> is an empty output
SearchOutputs == { << "" >>, << "w1" >>, << "w1", "w2" >> }

\* mutant of LastWindow: the first window listed is taken
FirstWindow(windows) ==
    IF windows # << >> /\ windows[1] # "" THEN windows[1] ELSE NoWindow

\* windows and windows[-1] or None
LastWindow(windows) ==
    IF windows # << >> /\ windows[Len(windows)] # ""
    THEN windows[Len(windows)] ELSE NoWindow

\* the arguments of xdotool search
SearchCommand(pid, search_name) ==
    (IF pid # "" THEN << "--onlyvisible", "--pid", pid >> ELSE << >>)
    \o (IF search_name # "" THEN << "--name", search_name >> ELSE << >>)

\* win_id = get_window(...) and the test that follows it
GotWindow(win_id) ==
    IF win_id = NoWindow
    THEN Skip("No window found") /\ UNCHANGED local
    ELSE /\ local' = [local EXCEPT !.win_id = win_id]
         /\ pc' = "calc_geometry"
         /\ UNCHANGED << errors, exc, outcome >>

\* xdotool search, for the process id found ("" for none)
Search(before, pid) ==
    LET args == SearchCommand(pid, local.config.search_name) IN
    \/ /\ calls' = before \o << Call("search", cur, args, FALSE, << >>) >>
       /\ GotWindow(NoWindow)
    \/ \E windows \in SearchOutputs :
          /\ calls' = before \o << Call("search", cur, args, TRUE, windows) >>
          /\ GotWindow(LastWindow(windows))

\* get_window, and arrange_window's test of what it returns
get_window ==
    /\ pc = "get_window"
    /\ LET process == local.config.search_process
           pgrep(ok, pids) == Call("pgrep", cur, << process >>, ok, pids)
       IN  IF process # ""
           THEN \/ /\ calls' = Append(calls, pgrep(FALSE, << >>))
                   /\ GotWindow(NoWindow)
                \/ \E pids \in PgrepOutputs :
                      IF Len(pids) > 1
                      THEN /\ calls' = Append(calls, pgrep(TRUE, pids))
                           /\ errors' = errors \o
                                 << Error(cur, "Multiple processes found"),
                                    Error(cur, "No window found") >>
                           /\ outcome' = [outcome EXCEPT ![cur] = "skipped"]
                           /\ pc' = "for"
                           /\ UNCHANGED << exc, local >>
                      ELSE Search(Append(calls, pgrep(TRUE, pids)), pids[1])
           ELSE Search(calls, "")
    /\ UNCHANGED << monitors, conf_file, desktops, screens, config, cur,
                    source, target, size >>

\* arrange_window: width, height, x_pos and y_pos
calc_geometry ==
    /\ pc = "calc_geometry"
    /\ LET cfg == local.config
           screen == local.screen
           width == calc_size(cfg.width, screen.width)
           height == calc_size(cfg.height, screen.height)
           sizeErrors ==
               (IF InvalidSize(cfg.width)
                THEN << Error(cur, "Invalid size") >> ELSE << >>)
               \o (IF InvalidSize(cfg.height)
                   THEN << Error(cur, "Invalid size") >> ELSE << >>)
           position == calc_pos(cfg.align, width, height, screen.width, screen.height)
           posErrors == [i \in 1..Len(PosErrors(cfg.align)) |->
                            Error(cur, PosErrors(cfg.align)[i])]
       IN  IF "width" \notin DOMAIN screen \/ "height" \notin DOMAIN screen
           THEN Abort("KeyError") /\ UNCHANGED << local, errors >>
           ELSE IF position.raised # ""
           THEN /\ Abort(position.raised)
                /\ errors' = errors \o sizeErrors
                /\ UNCHANGED local
           ELSE IF "x" \notin DOMAIN screen \/ "y" \notin DOMAIN screen
           THEN /\ Abort("KeyError")
                /\ errors' = errors \o sizeErrors \o posErrors
                /\ UNCHANGED local
           ELSE /\ local' = [local EXCEPT !.width = width,
                                          !.height = height,
                                          !.x_pos = position.value[1] + screen.x,
                                          !.y_pos = position.value[2] + screen.y]
                /\ errors' = errors \o sizeErrors \o posErrors
                /\ pc' = "set_window_pos"
                /\ UNCHANGED << exc, outcome >>
    /\ UNCHANGED << monitors, conf_file, desktops, screens, config, cur, calls,
                    source, target, size >>

\* One of the three xdotool commands of a placement: when it exits non-zero,
\* check_output raises and nothing catches the exception.
Xdotool(cmd, args, next) ==
    \E ok \in BOOLEAN :
       /\ calls' = Append(calls, Call(cmd, cur, << local.win_id >> \o args, ok, << >>))
       /\ IF ok
          THEN /\ pc' = next
               /\ exc' = exc
               /\ outcome' = IF next = "for"
                             THEN [outcome EXCEPT ![cur] = "placed"]
                             ELSE outcome
          ELSE Abort("CalledProcessError")

set_window_pos ==
    /\ pc = "set_window_pos"
    /\ Xdotool("windowmove", << local.x_pos, local.y_pos >>, "set_window_size")
    /\ UNCHANGED << monitors, conf_file, desktops, screens, config, cur, local,
                    errors, source, target, size >>

set_window_size ==
    /\ pc = "set_window_size"
    /\ Xdotool("windowsize", << local.width, local.height >>, "set_window_desktop")
    /\ UNCHANGED << monitors, conf_file, desktops, screens, config, cur, local,
                    errors, source, target, size >>

set_window_desktop ==
    /\ pc = "set_window_desktop"
    /\ Xdotool("set_desktop_for_window", << local.config.desktop >>, "for")
    /\ UNCHANGED << monitors, conf_file, desktops, screens, config, cur, local,
                    errors, source, target, size >>

\* calc_size called on its own
apply_calc_size ==
    /\ pc = "calc_size"
    /\ size' = calc_size(source, target)
    /\ pc' = "exit"
    /\ UNCHANGED << monitors, conf_file, desktops, screens, config, cur, local,
                    calls, errors, exc, outcome, source, target >>

---------------------------------------------------------------------------
(* Inputs.                                                                 *)

\* 'Monitors: 2'
LineHeader ==
    <<"M","o","n","i","t","o","r","s",":"," ","2">>
\* ' 0: +*DP-2 3440/820x1440/346+2560+0  DP-2'
LineDP2 ==
    <<" ","0",":"," ","+","*","D","P","-","2"," ","3","4","4","0","/","8","2","0","x","1","4","4","0","/","3","4","6","+","2","5","6","0","+","0"," "," ","D","P","-","2">>
\* ' 1: +DP-4 2560/345x1600/215+0+0  DP-4'
LineDP4 ==
    <<" ","1",":"," ","+","D","P","-","4"," ","2","5","6","0","/","3","4","5","x","1","6","0","0","/","2","1","5","+","0","+","0"," "," ","D","P","-","4">>
\* ' 2: +HD-0 1920/510x1080/290+2560+0  HD-0'
LineHD0 ==
    <<" ","2",":"," ","+","H","D","-","0"," ","1","9","2","0","/","5","1","0","x","1","0","8","0","/","2","9","0","+","2","5","6","0","+","0"," "," ","H","D","-","0">>
\* 'connected  DP-9'
LineNameOnly ==
    <<"c","o","n","n","e","c","t","e","d"," "," ","D","P","-","9">>
\* '1920/510x1080/290  DP-7'
LineNoOrigin ==
    <<"1","9","2","0","/","5","1","0","x","1","0","8","0","/","2","9","0"," "," ","D","P","-","7">>
\* ' 3: +DP-5 0/0x0/0+0+0  DP-5'
LineZero ==
    <<" ","3",":"," ","+","D","P","-","5"," ","0","/","0","x","0","/","0","+","0","+","0"," "," ","D","P","-","5">>
\* ' a: +DP-6 1/1x1/1+0+0  DP-6'
LineBadIndex ==
    <<" ","a",":"," ","+","D","P","-","6"," ","1","/","1","x","1","/","1","+","0","+","0"," "," ","D","P","-","6">>
\* '': the only line of an empty output
LineEmpty ==
    <<>>

SampleLines ==
    { LineHeader, LineDP2, LineDP4, LineHD0, LineNameOnly, LineNoOrigin,
      LineZero, LineBadIndex, LineEmpty }

\* the sequences over S of length 1..n
SeqsUpTo(S, n) == UNION { [1..k -> S] : k \in 1..n }


\* the xrandr outputs of the full run: two monitors reported right to left,
\* one monitor, and an output with a line that parses only in part
Topologies ==
    { << LineHeader, LineDP2, LineDP4 >>,
      << LineHeader, LineDP4 >>,
      << LineHeader, LineNoOrigin >> }

\* the desktop counts the window manager may start with
DesktopCounts == { 1, 4 }

\* {"search_name": "Firefox"}
RuleDefaults == [search_name |-> "Firefox"]
\* {"name": "Term", "search_process": "term", "screen": 0, "desktop": 0,
\*  "width": "50%", "height": 800, "align": "center right"}
RuleTerm ==
    [name |-> "Term", search_process |-> "term", screen |-> IntV(0),
     desktop |-> 0, width |-> StrV(<< "5", "0", "%" >>), height |-> IntV(800),
     align |-> <<"c","e","n","t","e","r"," ","r","i","g","h","t">>]
\* {"name": "Nothing", "desktop": 1}
RuleNoSearch == [name |-> "Nothing", desktop |-> 1]
\* {"search_name": "Mail", "screen": "1"}
RuleStrScreen == [search_name |-> "Mail", screen |-> StrV(<< "1" >>)]
\* {"search_name": "Chat", "screen": 5, "desktop": 3}
RuleScreen5 == [search_name |-> "Chat", screen |-> IntV(5), desktop |-> 3]
\* {"search_name": "Music", "screen": -1, "desktop": 0}
RuleScreenNeg == [search_name |-> "Music", screen |-> IntV(-1), desktop |-> 0]
\* {"search_name": "Editor", "desktop": 1, "align": "middle"}
RuleBadAlign ==
    [search_name |-> "Editor", desktop |-> 1,
     align |-> <<"m","i","d","d","l","e">>]
\* {"search_name": "Notes", "search_process": "notes", "screen": 1,
\*  "desktop": 3, "width": "40%", "height": "abc", "align": "25% Right"}
RuleNotes ==
    [search_name |-> "Notes", search_process |-> "notes", screen |-> IntV(1),
     desktop |-> 3, width |-> StrV(<< "4", "0", "%" >>),
     height |-> StrV(<< "a", "b", "c" >>),
     align |-> <<"2","5","%"," ","R","i","g","h","t">>]

SampleRules ==
    { RuleDefaults, RuleTerm, RuleNoSearch, RuleStrScreen, RuleScreen5,
      RuleScreenNeg, RuleBadAlign, RuleNotes }

\* config.json: unreadable, or a list of at most MaxRules rules
ConfFiles ==
    { [readable |-> FALSE, doc |-> << >>], [readable |-> TRUE, doc |-> << >>] }
    \cup { [readable |-> TRUE, doc |-> d] : d \in SeqsUpTo(SampleRules, MaxRules) }

\* the strings given to calc_size on its own
SampleSizes ==
    { <<"5","0","%">>, <<"1","5","0","%">>, <<"0","%">>, <<"1","%">>,
      <<"1","0","0","%">>, <<"1","0","1","%">>, <<"9","9","9","%">>,
      <<"1","0","0","0","%">>, <<"a","b","c">>, <<"-","5">>, <<"7">>,
      <<"1","0","0","0">>, <<"1","2","3","4","5">>, <<" ","5","0","%"," ">>,
      <<"3","3","%","%">>, << >> }

SizeSources ==
    { IntV(n) : n \in (0 - 2)..(MaxExtent + 2) } \cup { StrV(s) : s \in SampleSizes }

---------------------------------------------------------------------------
(* The specifications.                                                     *)

\* the state of the interpreter before the first statement
Fresh ==
    /\ screens = << >>
    /\ config = << >>
    /\ cur = 0
    /\ local = NoLocal
    /\ calls = << >>
    /\ errors = << >>
    /\ exc = ""
    /\ outcome = << >>
    /\ size = NoSize

\* One run of arrange_windows.
Init ==
    /\ pc = "get_active_screens"
    /\ monitors \in Topologies
    /\ conf_file \in ConfFiles
    /\ desktops \in DesktopCounts
    /\ source = IntV(0)
    /\ target = 0
    /\ Fresh

Next ==
    \/ get_active_screens
    \/ get_config
    \/ set_desktops
    \/ for_win_conf
    \/ arrange_window
    \/ get_window
    \/ calc_geometry
    \/ set_window_pos
    \/ set_window_size
    \/ set_window_desktop

Spec == Init /\ [][Next]_vars

\* get_active_screens on its own, on every output of at most MaxLines lines.
InitScreens ==
    /\ pc = "get_active_screens"
    /\ monitors \in SeqsUpTo(SampleLines, MaxLines)
    /\ conf_file = [readable |-> FALSE, doc |-> << >>]
    /\ desktops = 1
    /\ source = IntV(0)
    /\ target = 0
    /\ Fresh

NextScreens == get_active_screens

SpecScreens == InitScreens /\ [][NextScreens]_vars

\* calc_size on its own, on every sample source and every target extent up
\* to MaxExtent, and on the screen extents of the sample monitors.
InitSize ==
    /\ pc = "calc_size"
    /\ monitors = << LineEmpty >>
    /\ conf_file = [readable |-> FALSE, doc |-> << >>]
    /\ desktops = 1
    /\ source \in SizeSources
    /\ target \in 0..MaxExtent \cup { 1000, 1600, 2560 }
    /\ Fresh

NextSize == apply_calc_size

SpecSize == InitSize /\ [][NextSize]_vars

---------------------------------------------------------------------------
(* Properties.                                                             *)

\* the external commands issued for rule i, in order
RuleCalls(i) == SelectSeq(calls, LAMBDA c : c.rule = i)

\* the names of the commands of a sequence of calls
Cmds(cs) == [k \in 1..Len(cs) |-> cs[k].cmd]

\* whether an error was logged while rule i was processed
Reported(i) == \E k \in 1..Len(errors) : errors[k].rule = i

\* the rule as written in config.json names no search criterion
NoCriteria(rule) ==
    Get(rule, "search_name", "") = "" /\ Get(rule, "search_process", "") = ""

\* the rule has ended on an error of its own: it was skipped with a logged
\* error, or one of the assertions of arrange_window or calc_pos failed
RuleLevelError(i) ==
    outcome[i] = "skipped" \/ (outcome[i] = "raised" /\ exc = "AssertionError")

\* C1: a rule-level error on rule i (failed validation, failed window
\* resolution, malformed align) is reported, rule i is skipped and the run
\* goes on: when the run has ended with nothing but rule-level errors, every
\* rule after i has been processed by arrange_window.
C1_RuleErrorNeverAborts ==
    \A i \in DOMAIN outcome :
        RuleLevelError(i) =>
            /\ outcome[i] = "skipped"
            /\ Reported(i)
            /\ (pc = "exit" /\ exc \in {"", "AssertionError"}) =>
                  \A j \in DOMAIN outcome : j > i => outcome[j] # "none"

\* C2: the move, the resize and the desktop assignment of a rule are
\* independent: once the move was issued for a rule that is no longer being
\* processed, the resize and the desktop assignment were issued for it too,
\* and when the run has ended the next rule has been processed.
C2_PlacementCallsIndependent ==
    \A i \in DOMAIN outcome :
        LET cmds == { RuleCalls(i)[k].cmd : k \in 1..Len(RuleCalls(i)) } IN
        (outcome[i] # "active" /\ "windowmove" \in cmds) =>
            /\ "windowsize" \in cmds
            /\ "set_desktop_for_window" \in cmds
            /\ (pc = "exit" /\ i < Len(config)) => outcome[i + 1] # "none"

\* the integer screen value of rule i, with the default applied
ScreenOf(i) == Get(config[i], "screen", IntV(0))

\* C3: a rule with a search criterion whose screen is an integer outside
\* 0..N-1, N the number of active screens, has no external command issued for
\* it, raises no exception and, once processed, is skipped with a logged
\* error.
C3_ScreenOutsideRangeSkipped ==
    \A i \in DOMAIN outcome :
        ( /\ ~NoCriteria(config[i])
          /\ ScreenOf(i).t = "int"
          /\ ScreenOf(i).v \notin 0..(Len(screens) - 1) ) =>
            /\ RuleCalls(i) = << >>
            /\ outcome[i] \in {"none", "active", "skipped"}
            /\ outcome[i] = "skipped" => Reported(i)

\* the largest desktop index over the rules with the defaults of
\* arrange_window applied
MaxConfiguredDesktop ==
    CHOOSE m \in { Get(config[i], "desktop", Defaults.desktop) : i \in DOMAIN config } :
        \A i \in DOMAIN config : Get(config[i], "desktop", Defaults.desktop) <= m

\* C5: from the first rule on there are at least max_desktop + 1 desktops,
\* max_desktop taken with the rule defaults applied, and every
\* set_desktop_for_window targets an index below the desktop count.
C5_DesktopsSuffice ==
    /\ cur >= 1 => desktops >= MaxConfiguredDesktop + 1
    /\ \A k \in 1..Len(calls) :
          calls[k].cmd = "set_desktop_for_window" => calls[k].args[2] < desktops

\* C6: every record of the list returned by get_active_screens has a width
\* and a height, both greater than 0.
C6_ScreensHaveExtent ==
    pc = "get_config" =>
        \A k \in 1..Len(screens) :
            /\ "width" \in DOMAIN screens[k] /\ screens[k].width > 0
            /\ "height" \in DOMAIN screens[k] /\ screens[k].height > 0

\* C4 as stated: when a rule with neither search_name nor search_process is
\* rejected, no external command at all has been issued in the run.
C4_NoCallBeforeRejection ==
    \A i \in DOMAIN outcome :
        (NoCriteria(config[i]) /\ outcome[i] = "raised") => calls = << >>

\* C4, amended: a rule with neither search_name nor search_process is
\* rejected by the first assertion of arrange_window and no external command
\* is ever issued on its behalf; the topology query and the desktop-count
\* query come earlier in the run.
C4_NoCallForRejectedRule ==
    \A i \in DOMAIN outcome :
        NoCriteria(config[i]) =>
            /\ RuleCalls(i) = << >>
            /\ outcome[i] \in {"none", "active", "raised"}
            /\ outcome[i] = "raised" =>
                  /\ exc = "AssertionError"
                  /\ \E k \in 1..Len(calls) : calls[k].cmd = "xrandr"
                  /\ \E k \in 1..Len(calls) : calls[k].cmd = "get_num_desktops"

\* a rule without search criteria was rejected after an earlier rule had its
\* window searched
C4_Witness ==
    \E i \in DOMAIN outcome :
        /\ NoCriteria(config[i])
        /\ outcome[i] = "raised"
        /\ \E k \in 1..Len(calls) : calls[k].cmd = "search"

\* C7: calc_size returns an integer between 0 and target; a percentage of one
\* to three digits outside 1..100 gives the whole target, and a string that is
\* neither one to four digits nor such a percentage gives 0.
C7_SizeWithinTarget ==
    pc = "exit" =>
        /\ size \in 0..target
        /\ (source.t = "str" /\ MatchesPercent(Strip(source.s, Whitespace))
            /\ PyInt(WithoutPercent(Strip(source.s, Whitespace))) \notin 1..100)
              => size = target
        /\ InvalidSize(source) => size = 0

\* calc_size("150%", 1000) returned 1000
C7_Witness ==
    /\ pc = "exit"
    /\ source = StrV(<< "1", "5", "0", "%" >>)
    /\ target = 1000
    /\ size = 1000

\* C8: the list returned by get_active_screens is non-decreasing in x (a
\* record without x counts as x = 0), and the screens of equal x are in the
\* order in which xrandr reported them.
C8_SortedStable ==
    pc = "get_config" =>
        /\ \A i, j \in 1..Len(screens) :
              i < j => SortKey(screens[i]) <= SortKey(screens[j])
        /\ \A k \in { SortKey(screens[i]) : i \in 1..Len(screens) } :
              SelectSeq(screens, LAMBDA s : SortKey(s) = k)
                = SelectSeq(ParseMonitors(monitors), LAMBDA s : SortKey(s) = k)
        /\ Len(screens) = Len(ParseMonitors(monitors))

\* three monitors reported right to left, two of them at the same x
C8_Witness ==
    /\ pc = "get_config"
    /\ monitors = << LineHD0, LineDP2, LineDP4 >>
    /\ screens[1].x = 0
    /\ screens[2].index = 2
    /\ screens[3].index = 0

\* the commands of one rule, in the order of arrange_window
RuleCommands ==
    << "search", "windowmove", "windowsize", "set_desktop_for_window" >>

IsPrefix(p, q) == Len(p) <= Len(q) /\ \A k \in 1..Len(p) : p[k] = q[k]

\* C9: the commands of a rule are issued in the order window search, move,
\* resize, desktop assignment (after the process lookup, if any), each at most
\* once; none of move, resize and desktop assignment is issued when the
\* lookup or the search fails, finds several processes or finds no window;
\* and the three of them name the last window the search listed.
C9_CallOrder ==
    \A i \in DOMAIN outcome :
        LET cs == RuleCalls(i) IN
        /\ \/ IsPrefix(Cmds(cs), RuleCommands)
           \/ IsPrefix(Cmds(cs), << "pgrep" >> \o RuleCommands)
        /\ \A k \in 1..Len(cs) :
              /\ (cs[k].cmd = "pgrep" /\ (~cs[k].ok \/ Len(cs[k].lines) > 1))
                    => Len(cs) = k
              /\ (cs[k].cmd = "search"
                  /\ (~cs[k].ok \/ cs[k].lines[Len(cs[k].lines)] = ""))
                    => Len(cs) = k
              /\ cs[k].cmd \in {"windowmove", "windowsize", "set_desktop_for_window"}
                    => \E j \in 1..(k - 1) :
                          /\ cs[j].cmd = "search"
                          /\ cs[j].ok
                          /\ cs[k].args[1] = cs[j].lines[Len(cs[j].lines)]

\* a rule was placed after its search listed two windows
C9_Witness ==
    \E i \in DOMAIN outcome :
        /\ outcome[i] = "placed"
        /\ \E k \in 1..Len(RuleCalls(i)) :
              /\ RuleCalls(i)[k].cmd = "search"
              /\ RuleCalls(i)[k].lines = << "w1", "w2" >>

\* the rectangle lies inside the screen
Inside(x, y, w, h, screen) ==
    /\ 0 <= w /\ w <= screen.width
    /\ 0 <= h /\ h <= screen.height
    /\ screen.x <= x /\ x + w <= screen.x + screen.width
    /\ screen.y <= y /\ y + h <= screen.y + screen.height

\* the screen rule i is placed on
ScreenOfRule(i) == Index(screens, ScreenOf(i).v)

\* C10: the geometry sent to move and resize keeps the window inside the
\* screen of the rule: both while the three commands are pending and for
\* every move and resize already issued.
C10_InsideScreen ==
    /\ pc \in {"set_window_pos", "set_window_size", "set_window_desktop"} =>
          Inside(local.x_pos, local.y_pos, local.width, local.height, local.screen)
    /\ \A i \in DOMAIN outcome :
          \A m, r \in 1..Len(RuleCalls(i)) :
              (RuleCalls(i)[m].cmd = "windowmove" /\ RuleCalls(i)[r].cmd = "windowsize")
                => Inside(RuleCalls(i)[m].args[2], RuleCalls(i)[m].args[3],
                          RuleCalls(i)[r].args[2], RuleCalls(i)[r].args[3],
                          ScreenOfRule(i))

\* a window was moved and resized on the right-hand monitor, away from the
\* origin of that monitor
C10_Witness ==
    \E k \in 1..Len(calls) :
        /\ calls[k].cmd = "windowsize"
        /\ calls[k].args[2] > 0
        /\ ScreenOfRule(calls[k].rule).x > 0
        /\ \E m \in 1..Len(calls) :
              /\ calls[m].cmd = "windowmove"
              /\ calls[m].rule = calls[k].rule
              /\ calls[m].args[2] > ScreenOfRule(calls[k].rule).x
              /\ calls[m].args[3] > ScreenOfRule(calls[k].rule).y

===========================================================================
